---- MODULE Spec2Model ----
(***************************************************************************)
(* SlideSnap: the slide-detection engine extract_slides                    *)
(* (src/slidesnap_final.py) as a state machine.                            *)
(*                                                                         *)
(* Units.  Similarity and histogram scores and their thresholds are        *)
(* integers in thousandths (0.85 is 850).  Durations are in tenths of a    *)
(* second (0.8 s is 8).  A frame is a record: idx is its 1-based position  *)
(* in the stream, lap the variance of its Laplacian response, form "bgr"   *)
(* for the colour frame as read and "gray" for its grayscale conversion.   *)
(***************************************************************************)
EXTENDS Integers, Sequences, FiniteSets, TLC

\* ------------------------------------------------------------------------
\* Bounds of the model
\* ------------------------------------------------------------------------
\* Number of frames the source can deliver before it is exhausted.
MaxFrames == 12

\* Frame rates the source may report (0 and -1: missing FPS metadata).
FpsValues == {-1, 0, 1, 5, 7, 25}

\* Total frame counts the source may report (0: unknown / stale metadata).
TotalFramesValues == {0, 12}

\* Laplacian variances of the frames: just below and at BLUR_THRESHOLD.
LapValues == {49, 50}

\* Number of frames the source can deliver in the specification of paired runs.
MaxTwinFrames == 8

\* Number of frames the source can deliver in the specification that logs
\* the similarity scores.
MaxLoggedFrames == 6

\* Single-instance lock: number of processes that may be started at a
\* time, and number of lock files that may be created.
NumProcs == 3
MaxLockFiles == 2

\* Application window: number of run_extraction threads that may exist at
\* a time, and number of callbacks that may wait in the event queue.
MaxWorkers == 2
MaxQueue == 3

\* Scripted videos: the longest flicker, and the shortest held segment
\* (1.5 s at 25 fps is 37.5 frames).
MaxFlickerFrames == 8
MinSegmentFrames == 38

\* Scores the similarity engine may return (thousandths).
SsimValues == {700, 800, 850}
HistValues == {180, 200, 300}

\* ------------------------------------------------------------------------
\* Config
\* ------------------------------------------------------------------------
SSIM_THRESHOLD == 850
BLUR_THRESHOLD == 50
MIN_STABLE_SECONDS == 8
FRAME_SKIP == 2
COOLDOWN_SECONDS == 3

\* Python's None, for an absent frame or an absent argument.
None == [idx |-> 0, lap |-> 0, form |-> "none"]
NoArg == -1

\* Values of the ssim_threshold argument (NoArg: argument not given).
ThresholdArgs == {NoArg, 750}

NoResult == [returned |-> FALSE, error |-> "", slides |-> 0, output_dir |-> FALSE]
NoProgress == [num |-> 0, den |-> 1, msg |-> "", slides |-> 0]
NoScript == [kind |-> "none"]
NoTwin == [pc |-> "none"]
NoScores == <<0, 0, 0>>

VARIABLES
    pc,                    \* "call", "loop", "returned", "raised"
    fps_reported,          \* cap.get(cv2.CAP_PROP_FPS) as the source reports it
    ssim_threshold,        \* argument: thousandths, or NoArg
    progress_callback,     \* argument: TRUE when a callback is supplied
    fps, total_frames,     \* what the capture reports
    min_stable_frames, cooldown_frames,
    reference_slide, candidate_frame, candidate_frame_color,
    stable_count, slide_count, frame_idx, cooldown,
    frame,                 \* the frame returned by the latest cap.read()
    dir_exists,            \* the output directory exists
    files,                 \* the output directory: set of <<name, image>>
    imwrites,              \* history of the cv2.imwrite calls
    progress_calls,        \* number of progress_callback invocations
    last_progress,         \* arguments of the latest invocation
    result,                \* the returned dictionary
    \* History of the frame source, kept for stating properties only:
    first_sharp,           \* idx of the first sharp sampled frame read, 0 if none
    diff_run,              \* length of the current run of sampled frames that
                           \* differ from the reference slide in force
    run_base,              \* slide_count when that run began
    \* Used by the specifications of scripted videos and of paired runs:
    script,                \* the scripted video being played, NoScript if none
    twin,                  \* the second run over the same frames, NoTwin if none
    scores,                \* the scores the engine returned for the latest
                           \* sampled frame, where a specification logs them
    \* The single-instance lock, shared by the SlideSnap processes:
    proc,                  \* each process's position in __main__
    lock_file,             \* each process's _lock_file: the file it has
                           \* open, 0 for None
    lock_path,             \* the file _lock_path names, 0 if there is none
    flocks,                \* for each file, the process holding its lock
    signal_path,           \* the signal file exists
    files_made,            \* number of lock files created so far
    \* The application window (SlideSnapApp):
    video_path,            \* self.video_path: a video file, 0 for None
    output_path,           \* self.output_path: a folder, 0 for None
    extract_btn,           \* state and text of the Extract button
    workers,               \* the threads running run_extraction
    after_queue            \* callbacks handed to root.after(0, ...), in order

vars == <<pc, ssim_threshold, progress_callback, fps, total_frames,
          min_stable_frames, cooldown_frames,
          reference_slide, candidate_frame, candidate_frame_color,
          stable_count, slide_count, frame_idx, cooldown, frame,
          dir_exists, files, imwrites, progress_calls, last_progress, result,
          first_sharp, diff_run, run_base, fps_reported, script, twin,
          scores, proc, lock_file, lock_path, flocks, signal_path, files_made,
          video_path, output_path, extract_btn, workers, after_queue>>

args == <<ssim_threshold, progress_callback>>
capture == <<fps_reported, fps, total_frames>>
derived == <<min_stable_frames, cooldown_frames>>
locals == <<reference_slide, candidate_frame, candidate_frame_color,
            stable_count, slide_count, cooldown>>
disk == <<dir_exists, files, imwrites>>
reporter == <<progress_calls, last_progress>>
history == <<first_sharp, diff_run, run_base>>
locking == <<proc, lock_file, lock_path, flocks, signal_path, files_made>>
app == <<video_path, output_path, extract_btn, workers, after_queue>>
aside == <<scores, locking, app>>
other == <<script, twin, aside>>

\* The SlideSnap processes and the lock files; no process holds a lock.
Procs == 1..NumProcs
LockFiles == 1..MaxLockFiles
NoProc == 0

\* The lock state before any process has started.
LockInit ==
    /\ proc = [p \in Procs |-> "none"]
    /\ lock_file = [p \in Procs |-> 0]
    /\ lock_path = 0
    /\ flocks = [f \in LockFiles |-> NoProc]
    /\ signal_path = FALSE
    /\ files_made = 0

\* The files and folders the dialogs can return, and the worker threads.
VideoFiles == {1, 2}
OutputFolders == {1}
WorkerIds == 1..MaxWorkers
NoWorker == [pc |-> "none", video |-> 0, output |-> 0]

\* The window after SlideSnapApp.__init__ (lines 367-373, 646-656).
AppInit ==
    /\ video_path = 0
    /\ output_path = 0
    /\ extract_btn = [state |-> "disabled", text |-> "EXTRACT SLIDES"]
    /\ workers = [w \in WorkerIds |-> NoWorker]
    /\ after_queue = <<>>

\* ------------------------------------------------------------------------
\* Pure functions
\* ------------------------------------------------------------------------
\* int(x) of a non-negative quotient n/d truncates towards zero.
IntDiv(n, d) == n \div d

\* threshold = ssim_threshold if ssim_threshold is not None else SSIM_THRESHOLD
Threshold(arg) == IF arg # NoArg THEN arg ELSE SSIM_THRESHOLD

\* hist_thresh = 0.15 + (1.0 - threshold) * 0.2
HistThresh(threshold) == 150 + ((1000 - threshold) * 2) \div 10

\* Variant: only a frame rate of exactly 0 falls back to 25.
EffectiveFps_ZeroOnly(f) == IF f = 0 THEN 25 ELSE f

\* if fps <= 0: fps = 25
EffectiveFps(f) == IF f <= 0 THEN 25 ELSE f

\* min_stable_frames = int(MIN_STABLE_SECONDS * fps / FRAME_SKIP)
MinStableFrames(f) == IntDiv(MIN_STABLE_SECONDS * f, 10 * FRAME_SKIP)

\* Variant: the cooldown is rounded to the nearest frame count.
CooldownFrames_Rounded(f) ==
    (2 * COOLDOWN_SECONDS * f + 10 * FRAME_SKIP) \div (2 * 10 * FRAME_SKIP)

\* cooldown_frames = int(COOLDOWN_SECONDS * fps / FRAME_SKIP)
CooldownFrames(f) == IntDiv(COOLDOWN_SECONDS * f, 10 * FRAME_SKIP)

\* gray = cv2.cvtColor(frame, cv2.COLOR_BGR2GRAY); x.copy() keeps the image.
cvtColor(fr) == [fr EXCEPT !.form = "gray"]

is_blurry(frame_gray) == frame_gray.lap < BLUR_THRESHOLD

\* ssim_score and hist_score are what the similarity engine returns for the
\* pair (ref_frame, curr_frame).
detect_scene_change(ref_frame, ssim_score, hist_score, ssim_thr, hist_thr) ==
    IF ref_frame = None THEN TRUE
    ELSE (ssim_score < ssim_thr) \/ (hist_score > hist_thr)

\* Variant: a score equal to the threshold does not count as similar.
frames_similar_Above(score, ssim_thr) == score > ssim_thr

\* score is what the similarity engine returns for the pair (a, b).
frames_similar(score, ssim_thr) == score >= ssim_thr

\* f"slide_{slide_count:03d}.png": the decimal digits, zero-padded to three.
RECURSIVE Digits(_)
Digits(n) == IF n < 10 THEN <<n>> ELSE Append(Digits(n \div 10), n % 10)

RECURSIVE PadLeft(_, _)
PadLeft(ds, width) == IF Len(ds) >= width THEN ds ELSE PadLeft(<<0>> \o ds, width)

SlideName(n) == PadLeft(Digits(n), 3)

\* The sequence number a slide file name stands for.
RECURSIVE NameNumber(_)
NameNumber(ds) ==
    IF Len(ds) = 0 THEN 0
    ELSE 10 * NameNumber(SubSeq(ds, 1, Len(ds) - 1)) + ds[Len(ds)]

\* cv2.imwrite(path, image): on success the file holds the image (replacing
\* a file of the same name), on failure the directory is left as it was.
imwrite(fs, name, image, ok) ==
    IF ok THEN {f \in fs : f[1] # name} \cup {<<name, image>>} ELSE fs

\* ------------------------------------------------------------------------
\* The loop body, as functions of the local variables
\* ------------------------------------------------------------------------
Locals == [reference_slide |-> reference_slide,
           candidate_frame |-> candidate_frame,
           candidate_frame_color |-> candidate_frame_color,
           stable_count |-> stable_count,
           slide_count |-> slide_count,
           cooldown |-> cooldown,
           write |-> None]

\* Variant: slide #1 is written but reference_slide is not set.
FirstFrameBody_NoReference(s, fr) ==
    LET gray == cvtColor(fr) IN
    IF is_blurry(gray) THEN [s EXCEPT !.write = None]
    ELSE [s EXCEPT !.slide_count = s.slide_count + 1,
                   !.write = fr]

\* Variant: committing slide #1 starts a cooldown.
FirstFrameBody_StartsCooldown(s, fr) ==
    LET gray == cvtColor(fr) IN
    IF is_blurry(gray) THEN [s EXCEPT !.write = None]
    ELSE [s EXCEPT !.slide_count = s.slide_count + 1,
                   !.write = fr,
                   !.reference_slide = gray,
                   !.cooldown = 1]

\* First frame - save if not blurry (lines 199-209).  The field write is
\* the image handed to cv2.imwrite, None when nothing is written.
FirstFrameBody(s, fr) ==
    LET gray == cvtColor(fr) IN
    IF is_blurry(gray) THEN [s EXCEPT !.write = None]
    ELSE [s EXCEPT !.slide_count = s.slide_count + 1,
                   !.write = fr,
                   !.reference_slide = gray]

\* Variant: the first cooldown frame ends the cooldown.
CooldownBody_EndsAtOnce(s) == [s EXCEPT !.cooldown = 0, !.write = None]

\* Skip detection during cooldown period (lines 212-217).
CooldownBody(s) == [s EXCEPT !.cooldown = s.cooldown - 1, !.write = None]

\* Variant: the commit keeps the Candidate.
CommitIfStable_KeepCandidate(s, msf, cdf) ==
    IF s.stable_count >= msf
    THEN [s EXCEPT !.slide_count = s.slide_count + 1,
                   !.write = s.candidate_frame_color,
                   !.reference_slide = s.candidate_frame,
                   !.cooldown = cdf]
    ELSE s

\* Variant: the commit starts no cooldown.
CommitIfStable_NoCooldown(s, msf, cdf) ==
    IF s.stable_count >= msf
    THEN [s EXCEPT !.slide_count = s.slide_count + 1,
                   !.write = s.candidate_frame_color,
                   !.reference_slide = s.candidate_frame,
                   !.candidate_frame = None,
                   !.stable_count = 0]
    ELSE s

\* Variant: the commit does not advance slide_count.
CommitIfStable_NoCount(s, msf, cdf) ==
    IF s.stable_count >= msf
    THEN [s EXCEPT !.write = s.candidate_frame_color,
                   !.reference_slide = s.candidate_frame,
                   !.candidate_frame = None,
                   !.stable_count = 0,
                   !.cooldown = cdf]
    ELSE s

\* Variant: the commit leaves the reference slide as it was.
CommitIfStable_KeepReference(s, msf, cdf) ==
    IF s.stable_count >= msf
    THEN [s EXCEPT !.slide_count = s.slide_count + 1,
                   !.write = s.candidate_frame_color,
                   !.candidate_frame = None,
                   !.stable_count = 0,
                   !.cooldown = cdf]
    ELSE s

\* Variant: the commit needs the count to exceed min_stable_frames.
CommitIfStable_Above(s, msf, cdf) ==
    IF s.stable_count > msf
    THEN [s EXCEPT !.slide_count = s.slide_count + 1,
                   !.write = s.candidate_frame_color,
                   !.reference_slide = s.candidate_frame,
                   !.candidate_frame = None,
                   !.stable_count = 0,
                   !.cooldown = cdf]
    ELSE s

\* if stable_count >= min_stable_frames: commit (lines 245-251).
CommitIfStable(s, msf, cdf) ==
    IF s.stable_count >= msf
    THEN [s EXCEPT !.slide_count = s.slide_count + 1,
                   !.write = s.candidate_frame_color,
                   !.reference_slide = s.candidate_frame,
                   !.candidate_frame = None,
                   !.stable_count = 0,
                   !.cooldown = cdf]
    ELSE s

\* Variant: a frame matching the reference leaves the Candidate in place.
DetectBody_NoResetOnRevert(s, fr, ssim_ref, hist_ref, ssim_cand, thr, msf, cdf) ==
    LET gray == cvtColor(fr)
        s0 == [s EXCEPT !.write = None]
    IN
    IF is_blurry(gray)
    THEN [s0 EXCEPT !.stable_count = 0, !.candidate_frame = None]
    ELSE IF detect_scene_change(s.reference_slide, ssim_ref, hist_ref,
                                thr, HistThresh(thr))
    THEN LET adopted == [s0 EXCEPT !.candidate_frame = gray,
                                   !.candidate_frame_color = fr,
                                   !.stable_count = 1]
             tracked ==
                 IF s.candidate_frame = None THEN adopted
                 ELSE IF frames_similar(ssim_cand, thr)
                      THEN [s0 EXCEPT !.stable_count = s.stable_count + 1]
                      ELSE adopted
         IN CommitIfStable(tracked, msf, cdf)
    ELSE s0

\* Variant: detection without the early blur rejection.
DetectBody_NoBlurCheck(s, fr, ssim_ref, hist_ref, ssim_cand, thr, msf, cdf) ==
    LET gray == cvtColor(fr)
        s0 == [s EXCEPT !.write = None]
    IN
    IF detect_scene_change(s.reference_slide, ssim_ref, hist_ref,
                           thr, HistThresh(thr))
    THEN LET adopted == [s0 EXCEPT !.candidate_frame = gray,
                                   !.candidate_frame_color = fr,
                                   !.stable_count = 1]
             tracked ==
                 IF s.candidate_frame = None THEN adopted
                 ELSE IF frames_similar(ssim_cand, thr)
                      THEN [s0 EXCEPT !.stable_count = s.stable_count + 1]
                      ELSE adopted
         IN CommitIfStable(tracked, msf, cdf)
    ELSE [s0 EXCEPT !.stable_count = 0, !.candidate_frame = None]

\* Variant: a replaced Candidate keeps the colour form of the old one.
DetectBody_StaleColor(s, fr, ssim_ref, hist_ref, ssim_cand, thr, msf, cdf) ==
    LET gray == cvtColor(fr)
        s0 == [s EXCEPT !.write = None]
    IN
    IF is_blurry(gray)
    THEN [s0 EXCEPT !.stable_count = 0, !.candidate_frame = None]
    ELSE IF detect_scene_change(s.reference_slide, ssim_ref, hist_ref,
                                thr, HistThresh(thr))
    THEN LET adopted == [s0 EXCEPT !.candidate_frame = gray,
                                   !.candidate_frame_color = fr,
                                   !.stable_count = 1]
             tracked ==
                 IF s.candidate_frame = None THEN adopted
                 ELSE IF frames_similar(ssim_cand, thr)
                      THEN [s0 EXCEPT !.stable_count = s.stable_count + 1]
                      ELSE [s0 EXCEPT !.candidate_frame = gray,
                                      !.stable_count = 1]
         IN CommitIfStable(tracked, msf, cdf)
    ELSE [s0 EXCEPT !.stable_count = 0, !.candidate_frame = None]

\* Detection (lines 223-254).  ssim_ref, hist_ref: scores of the frame
\* against the reference slide; ssim_cand: its score against the candidate.
DetectBody(s, fr, ssim_ref, hist_ref, ssim_cand, thr, msf, cdf) ==
    LET gray == cvtColor(fr)
        s0 == [s EXCEPT !.write = None]
    IN
    IF is_blurry(gray)
    THEN [s0 EXCEPT !.stable_count = 0, !.candidate_frame = None]
    ELSE IF detect_scene_change(s.reference_slide, ssim_ref, hist_ref,
                                thr, HistThresh(thr))
    THEN LET adopted == [s0 EXCEPT !.candidate_frame = gray,
                                   !.candidate_frame_color = fr,
                                   !.stable_count = 1]
             tracked ==
                 IF s.candidate_frame = None THEN adopted
                 ELSE IF frames_similar(ssim_cand, thr)
                      THEN [s0 EXCEPT !.stable_count = s.stable_count + 1]
                      ELSE adopted
         IN CommitIfStable(tracked, msf, cdf)
    ELSE [s0 EXCEPT !.stable_count = 0, !.candidate_frame = None]

\* One iteration of the while loop on a frame that was read (lines 191-254):
\* the branch the code takes for it.
LoopBody(s, fr, ssim_ref, hist_ref, ssim_cand, thr, msf, cdf) ==
    IF fr.idx % FRAME_SKIP # 0 THEN [s EXCEPT !.write = None]
    ELSE IF s.reference_slide = None THEN FirstFrameBody(s, fr)
    ELSE IF s.cooldown > 0 THEN CooldownBody(s)
    ELSE DetectBody(s, fr, ssim_ref, hist_ref, ssim_cand, thr, msf, cdf)

\* ------------------------------------------------------------------------
\* Actions
\* ------------------------------------------------------------------------
Init ==
    /\ pc = "call"
    /\ script = NoScript
    /\ twin = NoTwin
    /\ scores = NoScores
    /\ LockInit
    /\ AppInit
    /\ fps_reported = 0
    /\ ssim_threshold \in ThresholdArgs
    /\ progress_callback \in BOOLEAN
    /\ fps = 0
    /\ total_frames = 0
    /\ min_stable_frames = 0
    /\ cooldown_frames = 0
    /\ reference_slide = None
    /\ candidate_frame = None
    /\ candidate_frame_color = None
    /\ stable_count = 0
    /\ slide_count = 0
    /\ frame_idx = 0
    /\ cooldown = 0
    /\ frame = None
    /\ dir_exists = FALSE
    /\ files = {}
    /\ imwrites = <<>>
    /\ progress_calls = 0
    /\ last_progress = NoProgress
    /\ result = NoResult
    /\ first_sharp = 0
    /\ diff_run = 0
    /\ run_base = 0

\* Variant: the output directory is created before the capture is checked.
OpenFail_MakesDir ==
    /\ pc = "call"
    /\ pc' = "returned"
    /\ dir_exists' = TRUE
    /\ result' = [returned |-> TRUE, error |-> "Cannot open video",
                  slides |-> 0, output_dir |-> FALSE]
    /\ UNCHANGED <<other, args, capture, derived, locals, frame_idx, frame, files,
                   imwrites, reporter, history>>

\* cap = cv2.VideoCapture(video_path); if not cap.isOpened(): return error
OpenFail ==
    /\ pc = "call"
    /\ pc' = "returned"
    /\ result' = [returned |-> TRUE, error |-> "Cannot open video",
                  slides |-> 0, output_dir |-> FALSE]
    /\ UNCHANGED <<other, args, capture, derived, locals, frame_idx, frame, disk,
                   reporter, history>>

\* The capture opens: read fps and frame count, derive the frame counts,
\* create the output directory, initialise the locals (lines 167-184).
Open ==
    /\ pc = "call"
    /\ \E f \in FpsValues, t \in TotalFramesValues :
          /\ fps_reported' = f
          /\ fps' = EffectiveFps(f)
          /\ total_frames' = t
          /\ min_stable_frames' = MinStableFrames(EffectiveFps(f))
          /\ cooldown_frames' = CooldownFrames(EffectiveFps(f))
    /\ dir_exists' = TRUE
    /\ reference_slide' = None
    /\ candidate_frame' = None
    /\ candidate_frame_color' = None
    /\ stable_count' = 0
    /\ slide_count' = 0
    /\ frame_idx' = 0
    /\ cooldown' = 0
    /\ pc' = "loop"
    /\ UNCHANGED <<other, args, frame, files, imwrites, reporter, result, history>>

\* progress_callback(progress, message), when a callback is supplied.
Report(num, den, msg, slides) ==
    IF progress_callback
    THEN /\ progress_calls' = progress_calls + 1
         /\ last_progress' = [num |-> num, den |-> den, msg |-> msg, slides |-> slides]
    ELSE UNCHANGED reporter

\* progress = (frame_idx / total_frames) * 100 divides by zero.
ProgressRaises == progress_callback /\ total_frames = 0

\* ret, frame = cap.read() returns the next frame of the stream.
ReadFrame(lap) ==
    /\ frame_idx < MaxFrames
    /\ frame_idx' = frame_idx + 1
    /\ frame' = [idx |-> frame_idx + 1, lap |-> lap, form |-> "bgr"]

\* The frame just read is a sampled one: not (frame_idx % FRAME_SKIP != 0).
Sampled == frame_idx' % FRAME_SKIP = 0

\* Whether the frame with these scores differs from the reference slide.
Differs(ssim_ref, hist_ref) ==
    detect_scene_change(reference_slide, ssim_ref, hist_ref,
                        Threshold(ssim_threshold),
                        HistThresh(Threshold(ssim_threshold)))

\* History: the first sharp sampled frame, and the run of differing frames.
Track(differs) ==
    /\ first_sharp' = IF first_sharp = 0 /\ ~is_blurry(cvtColor(frame'))
                      THEN frame'.idx ELSE first_sharp
    /\ diff_run' = IF differs THEN diff_run + 1 ELSE 0
    /\ run_base' = IF differs THEN run_base ELSE slide_count

\* Variant: a failed write abandons the commit.
Apply_AbortOnFail(n, ok) ==
    /\ IF n.write # None /\ ~ok
       THEN UNCHANGED locals
       ELSE /\ reference_slide' = n.reference_slide
            /\ candidate_frame' = n.candidate_frame
            /\ candidate_frame_color' = n.candidate_frame_color
            /\ stable_count' = n.stable_count
            /\ slide_count' = n.slide_count
            /\ cooldown' = n.cooldown
    /\ IF n.write # None
       THEN /\ files' = imwrite(files, SlideName(n.slide_count), n.write, ok)
            /\ imwrites' = Append(imwrites,
                  [name |-> SlideName(n.slide_count), image |-> n.write,
                   at |-> frame_idx', ok |-> ok])
       ELSE UNCHANGED <<files, imwrites>>
    /\ UNCHANGED dir_exists

\* Assign the locals from a loop-body result and perform its write.
Apply(n, ok) ==
    /\ reference_slide' = n.reference_slide
    /\ candidate_frame' = n.candidate_frame
    /\ candidate_frame_color' = n.candidate_frame_color
    /\ stable_count' = n.stable_count
    /\ slide_count' = n.slide_count
    /\ cooldown' = n.cooldown
    /\ IF n.write # None
       THEN /\ files' = imwrite(files, SlideName(n.slide_count), n.write, ok)
            /\ imwrites' = Append(imwrites,
                  [name |-> SlideName(n.slide_count), image |-> n.write,
                   at |-> frame_idx', ok |-> ok])
       ELSE UNCHANGED <<files, imwrites>>
    /\ UNCHANGED dir_exists

\* The outcomes of the write a loop-body result asks for.
WriteOutcomes(n) == IF n.write # None THEN BOOLEAN ELSE {TRUE}

\* Variant: a pending Candidate is committed when the stream ends.
ReadEnd_FlushCandidate ==
    /\ pc = "loop"
    /\ frame' = None
    /\ pc' = "returned"
    /\ UNCHANGED <<other, args, capture, derived, frame_idx, history>>
    /\ Report(100, 1, "Done", slide_count)
    /\ LET n == IF candidate_frame # None
                THEN CommitIfStable(Locals, 0, cooldown_frames)
                ELSE Locals
       IN /\ Apply(n, TRUE)
          /\ result' = [returned |-> TRUE, error |-> "", slides |-> n.slide_count,
                        output_dir |-> TRUE]

\* ret, frame = cap.read(); if not ret: break -- then release, report 100,
\* return the result (lines 187-189, 256-261).
ReadEnd ==
    /\ pc = "loop"
    /\ frame' = None
    /\ pc' = "returned"
    /\ Report(100, 1, "Done", slide_count)
    /\ result' = [returned |-> TRUE, error |-> "", slides |-> slide_count,
                  output_dir |-> TRUE]
    /\ UNCHANGED <<other, args, capture, derived, locals, frame_idx, disk, history>>

\* Variant: a skipped frame also consumes one frame of cooldown.
SkipFrame_TicksCooldown ==
    /\ pc = "loop"
    /\ \E lap \in LapValues : ReadFrame(lap)
    /\ ~Sampled
    /\ cooldown' = IF cooldown > 0 THEN cooldown - 1 ELSE cooldown
    /\ UNCHANGED <<pc, other, args, capture, derived, reference_slide,
                   candidate_frame, candidate_frame_color, stable_count,
                   slide_count, disk, reporter, result, history>>

\* frame_idx += 1; if frame_idx % FRAME_SKIP != 0: continue
SkipFrame ==
    /\ pc = "loop"
    /\ \E lap \in LapValues : ReadFrame(lap)
    /\ ~Sampled
    /\ UNCHANGED <<pc, other, args, capture, derived, locals, disk, reporter, result,
                   history>>

\* A sampled frame whose progress computation raises ZeroDivisionError
\* (lines 201, 215, 220): the exception leaves extract_slides.
ProgressError ==
    /\ pc = "loop"
    /\ \E lap \in LapValues : ReadFrame(lap)
    /\ Sampled
    /\ ProgressRaises
    /\ pc' = "raised"
    /\ Track(FALSE)
    /\ UNCHANGED <<other, args, capture, derived, locals, disk, reporter, result>>

\* A sampled frame while reference_slide is None (lines 199-209).
FirstFrame ==
    /\ pc = "loop"
    /\ reference_slide = None
    /\ ~ProgressRaises
    /\ \E lap \in LapValues :
          /\ ReadFrame(lap)
          /\ Sampled
          /\ LET n == FirstFrameBody(Locals, frame') IN
             \E ok \in WriteOutcomes(n) : Apply(n, ok)
    /\ Report(frame_idx' * 100, total_frames, "Analyzing", slide_count)
    /\ first_sharp' = IF first_sharp = 0 /\ ~is_blurry(cvtColor(frame'))
                      THEN frame'.idx ELSE first_sharp
    /\ diff_run' = 0
    /\ run_base' = slide_count'
    /\ UNCHANGED <<pc, other, args, capture, derived, result>>

\* A sampled frame during the cooldown period (lines 212-217).  The frame's
\* scores against the reference are not computed; they only feed the history.
CooldownFrame ==
    /\ pc = "loop"
    /\ reference_slide # None
    /\ cooldown > 0
    /\ ~ProgressRaises
    /\ \E lap \in LapValues : ReadFrame(lap)
    /\ Sampled
    /\ Apply(CooldownBody(Locals), TRUE)
    /\ Report(frame_idx' * 100, total_frames, "Stabilizing", slide_count)
    /\ \E ssim_ref \in SsimValues, hist_ref \in HistValues :
          Track(Differs(ssim_ref, hist_ref))
    /\ UNCHANGED <<pc, other, args, capture, derived, result>>

\* The scores frames_similar can see: none while there is no candidate.
CandidateScores == IF candidate_frame = None THEN {1000} ELSE SsimValues

\* A sampled frame evaluated by detection (lines 219-254).
DetectFrame ==
    /\ pc = "loop"
    /\ reference_slide # None
    /\ ~(cooldown > 0)
    /\ ~ProgressRaises
    /\ \E lap \in LapValues, ssim_ref \in SsimValues, hist_ref \in HistValues,
          ssim_cand \in CandidateScores :
          /\ ReadFrame(lap)
          /\ Sampled
          /\ LET n == DetectBody(Locals, frame', ssim_ref, hist_ref, ssim_cand,
                                 Threshold(ssim_threshold),
                                 min_stable_frames, cooldown_frames) IN
             \E ok \in WriteOutcomes(n) : Apply(n, ok)
          /\ Track(Differs(ssim_ref, hist_ref))
    /\ Report(frame_idx' * 100, total_frames, "Analyzing", slide_count)
    /\ UNCHANGED <<pc, other, args, capture, derived, result>>

Next ==
    \/ OpenFail
    \/ Open
    \/ ReadEnd
    \/ SkipFrame
    \/ ProgressError
    \/ FirstFrame
    \/ CooldownFrame
    \/ DetectFrame

Spec == Init /\ [][Next]_vars

\* ------------------------------------------------------------------------
\* Properties
\* ------------------------------------------------------------------------
Commits == 1..Len(imwrites)

\* Distance, in sampled frames, between commit i and commit i+1.
SampledDistance(i) == (imwrites[i + 1].at - imwrites[i].at) \div FRAME_SKIP

\* The step reads a frame that is sampled.
SampledStep == frame_idx' = frame_idx + 1 /\ frame_idx' % FRAME_SKIP = 0

\* C1: after every processed frame a positive cooldown counter excludes a
\* Candidate: cooldown > 0 implies candidate_frame is None and
\* stable_count = 0.
C1_CooldownExcludesCandidate ==
    cooldown > 0 => (candidate_frame = None /\ stable_count = 0)

\* A cooldown is running right after a detection commit of a Candidate.
C1_Witness ==
    /\ pc = "loop"
    /\ cooldown > 0
    /\ Len(imwrites) >= 2
    /\ candidate_frame_color # None

\* C2 (as stated): any two consecutive commits, slide #1 and slide #2
\* included, are at least cooldown_frames + min_stable_frames sampled
\* frames apart.
C2_AnyConsecutiveCommits ==
    \A i \in 1..(Len(imwrites) - 1) :
        SampledDistance(i) >= cooldown_frames + min_stable_frames

\* C2 (amended): two consecutive commits are at least min_stable_frames
\* sampled frames apart, and at least cooldown_frames + min_stable_frames
\* apart when the earlier of the two is not slide #1.
C2_CooldownEnforcement ==
    \A i \in 1..(Len(imwrites) - 1) :
        /\ SampledDistance(i) >= min_stable_frames
        /\ i >= 2 => SampledDistance(i) >= cooldown_frames + min_stable_frames

\* Three commits, the last two exactly cooldown + stability window apart.
C2_Witness ==
    /\ Len(imwrites) >= 3
    /\ cooldown_frames > 0
    /\ min_stable_frames > 0
    /\ SampledDistance(2) = cooldown_frames + min_stable_frames
    /\ SampledDistance(1) < cooldown_frames + min_stable_frames

\* C3: once a reference slide exists, a run of sampled frames differing
\* from the reference that is shorter than min_stable_frames produces no
\* commit, up to and including the frame that reverts to the reference:
\* slide_count is still what it was when the run began.
C3_ShortChangeNoCommit ==
    (reference_slide # None /\ diff_run < min_stable_frames)
        => slide_count = run_base

\* A sharp frame has just reverted to the reference after the previous
\* sampled frame had been adopted as Candidate.
C3_Witness ==
    /\ pc = "loop"
    /\ min_stable_frames >= 2
    /\ frame # None /\ frame.idx % FRAME_SKIP = 0 /\ ~is_blurry(cvtColor(frame))
    /\ diff_run = 0
    /\ candidate_frame = None
    /\ candidate_frame_color # None
    /\ candidate_frame_color.idx = frame.idx - FRAME_SKIP
    /\ slide_count = run_base

\* C4: the k-th commit is written under sequence number k, writes happen
\* in commit order, and the returned slides value is the number of commits.
C4_GapFreeNumbering ==
    /\ slide_count = Len(imwrites)
    /\ \A k \in Commits : NameNumber(imwrites[k].name) = k
    /\ \A k \in 1..(Len(imwrites) - 1) : imwrites[k].at < imwrites[k + 1].at
    /\ (result.returned /\ result.error = "") => result.slides = Len(imwrites)

\* A run has returned after three commits.
C4_Witness ==
    /\ pc = "returned"
    /\ result.slides >= 3
    /\ Len(imwrites) >= 3

\* C5: slide #1 is exactly the first sharp sampled frame, committed with
\* index 1 whatever the similarity scores; while every sampled frame was
\* blurry, nothing is committed.
C5_FirstFrameGating ==
    /\ first_sharp # 0 =>
          /\ Len(imwrites) >= 1
          /\ imwrites[1].image = [idx |-> first_sharp, lap |-> imwrites[1].image.lap,
                                  form |-> "bgr"]
          /\ imwrites[1].name = SlideName(1)
    /\ first_sharp = 0 => (slide_count = 0 /\ imwrites = <<>>)

\* C6: reference_slide is None exactly while no slide has been committed,
\* and once set it is never reset to None.
C6_ReferenceNoneIffNoSlide ==
    /\ []((reference_slide = None) <=> (slide_count = 0))
    /\ [][reference_slide # None => reference_slide' # None]_vars

\* The reference slide has been replaced by a second commit.
C6_Witness ==
    /\ slide_count >= 2
    /\ reference_slide # None
    /\ reference_slide.idx > FRAME_SKIP

\* What a step that samples a blurry frame may do.
C7_BlurryStep ==
    (SampledStep /\ is_blurry(cvtColor(frame'))) =>
        /\ imwrites' = imwrites
        /\ slide_count' = slide_count
        /\ candidate_frame'.idx # frame'.idx
        /\ stable_count' <= stable_count
        /\ (pc' = "loop" /\ reference_slide # None /\ ~(cooldown > 0)) =>
               (candidate_frame' = None /\ stable_count' = 0)

\* C7: a blurry sampled frame is never committed, never adopted as
\* Candidate and never increments stable_count; evaluated by detection it
\* discards the Candidate and zeroes stable_count; so every image written
\* was judged not blurry.
C7_BlurVeto ==
    /\ [](\A k \in Commits : ~is_blurry(cvtColor(imwrites[k].image)))
    /\ [][C7_BlurryStep]_vars

\* A blurry frame has just collapsed the Candidate adopted one sampled
\* frame earlier.
C7_Witness ==
    /\ pc = "loop"
    /\ min_stable_frames >= 2
    /\ frame # None /\ frame.idx % FRAME_SKIP = 0 /\ is_blurry(cvtColor(frame))
    /\ candidate_frame = None
    /\ stable_count = 0
    /\ candidate_frame_color # None
    /\ candidate_frame_color.idx = frame.idx - FRAME_SKIP

\* C8: when cap.read() returns no frame the run returns at once a normal
\* result with the slides committed so far, and commits nothing more: a
\* pending Candidate is dropped.
C8_EndOfStream ==
    [][(pc = "loop" /\ frame' = None) =>
          /\ pc' = "returned"
          /\ result'.returned /\ result'.error = ""
          /\ result'.slides = slide_count
          /\ slide_count' = slide_count
          /\ imwrites' = imwrites
          /\ files' = files]_vars

\* The run has returned while a Candidate was still unconfirmed.
C8_Witness ==
    /\ pc = "returned"
    /\ result.error = ""
    /\ candidate_frame # None
    /\ stable_count >= 1
    /\ stable_count < min_stable_frames
    /\ result.slides = Len(imwrites)

\* C9: when the source cannot be opened extract_slides returns an error
\* result with slide count 0, writes no slide and creates nothing.
C9_SourceUnopenable ==
    /\ [](result.error # "" =>
            /\ pc = "returned"
            /\ result.returned
            /\ result.slides = 0
            /\ imwrites = <<>>
            /\ files = {}
            /\ ~dir_exists)
    /\ [][(pc = "call" /\ pc' # "loop") =>
            (pc' = "returned" /\ result'.error = "Cannot open video")]_vars

\* The error result has been returned.
C9_Witness ==
    /\ pc = "returned"
    /\ result.error = "Cannot open video"

\* C10: a failed write does not abort the run: slide_count advances, the
\* reference slide and the cooldown are set as for a successful commit,
\* and the loop goes on.
C10_FailedWriteContinues ==
    [][(Len(imwrites') = Len(imwrites) + 1 /\ ~imwrites'[Len(imwrites')].ok) =>
          /\ pc' = "loop"
          /\ files' = files
          /\ slide_count' = slide_count + 1
          /\ reference_slide' = cvtColor(imwrites'[Len(imwrites')].image)
          /\ candidate_frame' = None
          /\ stable_count' = 0
          /\ cooldown' = IF reference_slide = None THEN 0 ELSE cooldown_frames]_vars

\* A commit whose write failed was followed by a detection commit whose
\* write succeeded.
C10_Witness ==
    \E k \in 1..(Len(imwrites) - 1) :
        /\ ~imwrites[k].ok
        /\ imwrites[k + 1].ok
        /\ slide_count = Len(imwrites)
        /\ Cardinality(files) < Len(imwrites)

\* The capture opened: the run got past the isOpened check.
Opened == pc # "call" /\ result.error = ""

\* C11: after a run that returns slides = n the output location holds
\* exactly one image file per committed slide, numbered 1..n without gap.
C11_OneFilePerSlide ==
    (pc = "returned" /\ result.error = "") =>
        /\ Cardinality(files) = result.slides
        /\ {NameNumber(f[1]) : f \in files} = 1..result.slides

\* n / d rounded to the nearest integer (n >= 0, d > 0).
RoundNearest(n, d) == (2 * n + d) \div (2 * d)

\* C18 (as stated): for fps > 0, min_stable_frames = round(0.8 * fps / 2)
\* and cooldown_frames = round(0.3 * fps / 2).
C18_RoundedFrameCounts ==
    (Opened /\ fps_reported > 0) =>
        /\ min_stable_frames =
              RoundNearest(MIN_STABLE_SECONDS * fps_reported, 10 * FRAME_SKIP)
        /\ cooldown_frames =
              RoundNearest(COOLDOWN_SECONDS * fps_reported, 10 * FRAME_SKIP)

\* C18 (amended): for fps > 0 the two frame counts are 0.8 * fps / 2 and
\* 0.3 * fps / 2 truncated to an integer: each is the largest integer not
\* above its quotient.
C18_TruncatedFrameCounts ==
    (Opened /\ fps_reported > 0) =>
        /\ 10 * FRAME_SKIP * min_stable_frames <= MIN_STABLE_SECONDS * fps_reported
        /\ MIN_STABLE_SECONDS * fps_reported < 10 * FRAME_SKIP * (min_stable_frames + 1)
        /\ 10 * FRAME_SKIP * cooldown_frames <= COOLDOWN_SECONDS * fps_reported
        /\ COOLDOWN_SECONDS * fps_reported < 10 * FRAME_SKIP * (cooldown_frames + 1)

\* A 25 fps source: 0.3 * 25 / 2 = 3.75 gives a cooldown of 3 frames.
C18_Witness ==
    /\ pc = "loop"
    /\ fps_reported = 25
    /\ min_stable_frames = 10
    /\ cooldown_frames = 3

TwinConfigs ==
    {<<<<750, FALSE>>, <<NoArg, FALSE>>>>,
     <<<<NoArg, TRUE>>, <<NoArg, FALSE>>>>,
     <<<<750, TRUE>>, <<750, FALSE>>>>}

InitialLocals == [reference_slide |-> None,
                  candidate_frame |-> None,
                  candidate_frame_color |-> None,
                  stable_count |-> 0,
                  slide_count |-> 0,
                  cooldown |-> 0,
                  write |-> None]

TwinInit ==
    /\ pc = "call"
    /\ script = NoScript
    /\ scores = NoScores
    /\ LockInit
    /\ AppInit
    /\ \E c \in TwinConfigs :
          /\ ssim_threshold = c[1][1]
          /\ progress_callback = c[1][2]
          /\ twin = [pc |-> "call",
                     ssim_threshold |-> c[2][1],
                     progress_callback |-> c[2][2],
                     s |-> InitialLocals,
                     imwrites |-> <<>>,
                     result |-> NoResult]
    /\ fps_reported = 0
    /\ fps = 0
    /\ total_frames = 0
    /\ min_stable_frames = 0
    /\ cooldown_frames = 0
    /\ reference_slide = None
    /\ candidate_frame = None
    /\ candidate_frame_color = None
    /\ stable_count = 0
    /\ slide_count = 0
    /\ frame_idx = 0
    /\ cooldown = 0
    /\ frame = None
    /\ dir_exists = FALSE
    /\ files = {}
    /\ imwrites = <<>>
    /\ progress_calls = 0
    /\ last_progress = NoProgress
    /\ result = NoResult
    /\ first_sharp = 0
    /\ diff_run = 0
    /\ run_base = 0

\* Both runs open the source and derive the same frame counts (167-184).
TwinOpen ==
    /\ pc = "call"
    /\ twin.pc = "call"
    /\ \E f \in FpsValues, t \in TotalFramesValues :
          /\ fps_reported' = f
          /\ fps' = EffectiveFps(f)
          /\ total_frames' = t
          /\ min_stable_frames' = MinStableFrames(EffectiveFps(f))
          /\ cooldown_frames' = CooldownFrames(EffectiveFps(f))
    /\ dir_exists' = TRUE
    /\ pc' = "loop"
    /\ twin' = [twin EXCEPT !.pc = "loop"]
    /\ UNCHANGED <<script, aside, args, locals, frame_idx, frame, files, imwrites,
                   reporter, result, history>>

\* The earlier frames a run holds: the current frame is scored against them.
Held(s) == {s.reference_slide.idx, s.candidate_frame.idx} \ {0}

\* The score of the current frame against earlier frame e; sc maps the
\* earlier frames held by either run to <<ssim, hist>>.
ScoreOf(sc, e) == IF e \in DOMAIN sc THEN sc[e] ELSE <<1000, 0>>

\* The loop body of a run on frame fr under the scores sc.
ScoredBody(s, fr, sc, arg, msf, cdf) ==
    LoopBody(s, fr,
             ScoreOf(sc, s.reference_slide.idx)[1],
             ScoreOf(sc, s.reference_slide.idx)[2],
             ScoreOf(sc, s.candidate_frame.idx)[1],
             Threshold(arg), msf, cdf)

\* The second run processes a sampled frame.
TwinStep(t, fr, sc, msf, cdf, total) ==
    IF t.pc # "loop" THEN t
    ELSE IF t.progress_callback /\ total = 0 THEN [t EXCEPT !.pc = "raised"]
    ELSE LET n == ScoredBody(t.s, fr, sc, t.ssim_threshold, msf, cdf) IN
         [t EXCEPT !.s = n,
                   !.imwrites = IF n.write # None
                                THEN Append(@, [name |-> SlideName(n.slide_count),
                                                image |-> n.write,
                                                at |-> fr.idx, ok |-> TRUE])
                                ELSE @]

\* The second run returns.
TwinReturn(t) ==
    IF t.pc # "loop" THEN t
    ELSE [t EXCEPT !.pc = "returned",
                   !.result = [returned |-> TRUE, error |-> "",
                               slides |-> t.s.slide_count, output_dir |-> TRUE]]

\* Both runs read a frame that is not sampled.
TwinSkip ==
    /\ pc = "loop" \/ twin.pc = "loop"
    /\ frame_idx < MaxTwinFrames
    /\ (frame_idx + 1) % FRAME_SKIP # 0
    /\ frame_idx' = frame_idx + 1
    /\ \E lap \in LapValues :
          frame' = [idx |-> frame_idx + 1, lap |-> lap, form |-> "bgr"]
    /\ UNCHANGED <<pc, other, args, capture, derived, locals, disk, reporter,
                   result, history>>

\* Both runs read a sampled frame; each run still in its loop processes it.
TwinSample ==
    /\ pc = "loop" \/ twin.pc = "loop"
    /\ frame_idx < MaxTwinFrames
    /\ (frame_idx + 1) % FRAME_SKIP = 0
    /\ frame_idx' = frame_idx + 1
    /\ \E lap \in LapValues,
          sc \in [Held(Locals) \cup Held(twin.s) -> SsimValues \X HistValues] :
          /\ frame' = [idx |-> frame_idx + 1, lap |-> lap, form |-> "bgr"]
          /\ twin' = TwinStep(twin, frame', sc, min_stable_frames,
                              cooldown_frames, total_frames)
          /\ IF pc # "loop"
             THEN UNCHANGED <<pc, locals, disk, reporter>>
             ELSE IF ProgressRaises
             THEN pc' = "raised" /\ UNCHANGED <<locals, disk, reporter>>
             ELSE /\ Apply(ScoredBody(Locals, frame', sc, ssim_threshold,
                                      min_stable_frames, cooldown_frames), TRUE)
                  /\ Report(frame_idx' * 100, total_frames,
                            IF reference_slide # None /\ cooldown > 0
                            THEN "Stabilizing" ELSE "Analyzing",
                            slide_count)
                  /\ UNCHANGED pc
    /\ UNCHANGED <<script, aside, args, capture, derived, result, history>>

\* The source is exhausted: each run still in its loop returns.
TwinEnd ==
    /\ pc = "loop" \/ twin.pc = "loop"
    /\ frame' = None
    /\ twin' = TwinReturn(twin)
    /\ IF pc = "loop"
       THEN /\ pc' = "returned"
            /\ Report(100, 1, "Done", slide_count)
            /\ result' = [returned |-> TRUE, error |-> "",
                          slides |-> slide_count, output_dir |-> TRUE]
       ELSE UNCHANGED <<pc, reporter, result>>
    /\ UNCHANGED <<script, aside, args, capture, derived, locals, frame_idx, disk,
                   history>>

TwinNext ==
    \/ TwinOpen
    \/ TwinSkip
    \/ TwinSample
    \/ TwinEnd

SpecTwin == TwinInit /\ [][TwinNext]_vars

\* The commits of a run as <<file name, image>> pairs, in order.
CommitsOf(ws) == [k \in 1..Len(ws) |-> <<ws[k].name, ws[k].image>>]

\* Both runs have returned.
BothReturned == pc = "returned" /\ twin.pc = "returned"

\* C12: with everything else equal, the run with the lower similarity
\* threshold commits at least as many slides as the run with the higher.
C12_LowerThresholdMoreSlides ==
    (BothReturned
       /\ progress_callback = twin.progress_callback
       /\ Threshold(ssim_threshold) < Threshold(twin.ssim_threshold))
    => result.slides >= twin.result.slides

\* C13: with everything else equal, the run with the higher similarity
\* threshold commits at least as many slides as the run with the lower.
C13_HigherThresholdMoreSlides ==
    (BothReturned
       /\ progress_callback = twin.progress_callback
       /\ Threshold(ssim_threshold) < Threshold(twin.ssim_threshold))
    => twin.result.slides >= result.slides

\* C20: a run with a progress callback and a run without one, otherwise
\* equal, are in the same place after every frame, have committed the same
\* slides and return the same result.
C20_ProgressObservational ==
    (twin.pc # "none"
       /\ ssim_threshold = twin.ssim_threshold
       /\ progress_callback /\ ~twin.progress_callback)
    => /\ pc = twin.pc
       /\ CommitsOf(imwrites) = CommitsOf(twin.imwrites)
       /\ result = twin.result

\* ------------------------------------------------------------------------
\* Scripted videos: the scenarios of the specification, played through the
\* same loop body.  A script fixes which image every frame shows; the
\* similarity engine scores two frames showing the same image as identical
\* (1.0, 0.0) and two frames showing different images as a hard cut.
\* ------------------------------------------------------------------------
SegmentLengths == {MinSegmentFrames, MinSegmentFrames + 1}

\* Scores of a frame against a frame showing another image: structural
\* similarity below every threshold in use.
CutScores == {<<700, 180>>, <<700, 300>>}

SharpLaps == {l \in LapValues : l >= BLUR_THRESHOLD}

\* Scenario A: three held segments at 25 fps, default threshold.
SegmentScripts ==
    {[kind |-> "segments", segs |-> <<a, b, c>>, len |-> a + b + c,
      fps |-> 25, arg |-> NoArg, lap |-> l] :
        a \in SegmentLengths, b \in SegmentLengths, c \in SegmentLengths,
        l \in SharpLaps}

\* Scenario B: two images alternating, each held for hold frames.
FlickerScripts ==
    {[kind |-> "flicker", hold |-> h, len |-> n, fps |-> f, arg |-> a, lap |-> l] :
        h \in {1, FRAME_SKIP}, n \in FRAME_SKIP..MaxFlickerFrames,
        f \in FpsValues, a \in ThresholdArgs, l \in SharpLaps}

\* Scenario C: a source of zero frames or of one frame.
ShortScripts ==
    {[kind |-> "short", len |-> n, fps |-> f, arg |-> NoArg, lap |-> l] :
        n \in {0, 1}, f \in FpsValues, l \in LapValues}

Scripts == SegmentScripts \cup FlickerScripts \cup ShortScripts

\* The image frame i of the script shows.
Image(sc, i) ==
    IF sc.kind = "segments"
    THEN IF i <= sc.segs[1] THEN 1
         ELSE IF i <= sc.segs[1] + sc.segs[2] THEN 2 ELSE 3
    ELSE IF sc.kind = "flicker"
    THEN (((i - 1) \div sc.hold) % 2) + 1
    ELSE 1

\* The score tables the engine can return for frame i against the frames
\* in held.
ScriptScores(sc, i, held) ==
    {t \in [held -> {<<1000, 0>>} \cup CutScores] :
        \A e \in held : (Image(sc, e) = Image(sc, i)) <=> (t[e] = <<1000, 0>>)}

ScriptInit ==
    /\ pc = "call"
    /\ twin = NoTwin
    /\ scores = NoScores
    /\ LockInit
    /\ AppInit
    /\ script \in Scripts
    /\ ssim_threshold = script.arg
    /\ progress_callback \in BOOLEAN
    /\ fps_reported = 0
    /\ fps = 0
    /\ total_frames = 0
    /\ min_stable_frames = 0
    /\ cooldown_frames = 0
    /\ reference_slide = None
    /\ candidate_frame = None
    /\ candidate_frame_color = None
    /\ stable_count = 0
    /\ slide_count = 0
    /\ frame_idx = 0
    /\ cooldown = 0
    /\ frame = None
    /\ dir_exists = FALSE
    /\ files = {}
    /\ imwrites = <<>>
    /\ progress_calls = 0
    /\ last_progress = NoProgress
    /\ result = NoResult
    /\ first_sharp = 0
    /\ diff_run = 0
    /\ run_base = 0

\* The source opens and reports the script's frame rate; the frame count
\* it reports is the true one or 0 (lines 167-184).
ScriptOpen ==
    /\ pc = "call"
    /\ fps_reported' = script.fps
    /\ fps' = EffectiveFps(script.fps)
    /\ total_frames' \in {0, script.len}
    /\ min_stable_frames' = MinStableFrames(EffectiveFps(script.fps))
    /\ cooldown_frames' = CooldownFrames(EffectiveFps(script.fps))
    /\ dir_exists' = TRUE
    /\ pc' = "loop"
    /\ UNCHANGED <<other, args, locals, frame_idx, frame, files, imwrites,
                   reporter, result, history>>

\* The next frame of the script is read and is not sampled.
ScriptSkip ==
    /\ pc = "loop"
    /\ frame_idx < script.len
    /\ (frame_idx + 1) % FRAME_SKIP # 0
    /\ frame_idx' = frame_idx + 1
    /\ frame' = [idx |-> frame_idx + 1, lap |-> script.lap, form |-> "bgr"]
    /\ UNCHANGED <<pc, other, args, capture, derived, locals, disk, reporter,
                   result, history>>

\* The next frame of the script is read and sampled.
ScriptSample ==
    /\ pc = "loop"
    /\ frame_idx < script.len
    /\ (frame_idx + 1) % FRAME_SKIP = 0
    /\ frame_idx' = frame_idx + 1
    /\ frame' = [idx |-> frame_idx + 1, lap |-> script.lap, form |-> "bgr"]
    /\ IF ProgressRaises
       THEN pc' = "raised" /\ UNCHANGED <<locals, disk, reporter>>
       ELSE /\ \E sc \in ScriptScores(script, frame_idx + 1, Held(Locals)) :
                  Apply(ScoredBody(Locals, frame', sc, ssim_threshold,
                                   min_stable_frames, cooldown_frames), TRUE)
            /\ Report(frame_idx' * 100, total_frames,
                      IF reference_slide # None /\ cooldown > 0
                      THEN "Stabilizing" ELSE "Analyzing",
                      slide_count)
            /\ UNCHANGED pc
    /\ UNCHANGED <<other, args, capture, derived, result, history>>

\* The script is exhausted: cap.read() fails and the run returns.
ScriptEnd ==
    /\ pc = "loop"
    /\ frame_idx = script.len
    /\ frame' = None
    /\ pc' = "returned"
    /\ Report(100, 1, "Done", slide_count)
    /\ result' = [returned |-> TRUE, error |-> "", slides |-> slide_count,
                  output_dir |-> TRUE]
    /\ UNCHANGED <<other, args, capture, derived, locals, frame_idx, disk, history>>

ScriptNext ==
    \/ ScriptOpen
    \/ ScriptSkip
    \/ ScriptSample
    \/ ScriptEnd

SpecScript == ScriptInit /\ [][ScriptNext]_vars

\* The run over the script is over.
ScriptOver == pc = "returned" \/ pc = "raised"

\* C15: Scenario A yields exactly 3 committed slides, one from each
\* segment.
C15_ScenarioA ==
    (script.kind = "segments" /\ ScriptOver) =>
        /\ pc = "returned"
        /\ result.slides = 3
        /\ Len(imwrites) = 3
        /\ \A k \in Commits : Image(script, imwrites[k].image.idx) = k

\* The longest run of consecutive sampled frames of a flicker that show the
\* same image.
FlickerRun(sc) == IF sc.hold = FRAME_SKIP THEN 1 ELSE sc.len \div FRAME_SKIP

\* The flicker is one in which no image persists for min_stable_frames
\* consecutive sampled frames.
Flickering ==
    /\ script.kind = "flicker"
    /\ pc # "call"
    /\ FlickerRun(script) < min_stable_frames

\* C16: Scenario B commits exactly 1 slide, the initial one, and never
\* another.
C16_ScenarioB ==
    /\ Flickering => slide_count <= 1
    /\ (Flickering /\ ScriptOver) =>
          /\ pc = "returned"
          /\ result.slides = 1
          /\ Len(imwrites) = 1
          /\ imwrites[1].image.idx = FRAME_SKIP

\* C17: Scenario C returns without error 0 slides for an empty source, and
\* for a one-frame source 0 slides if the frame is blurry and 1 if sharp.
C17_ScenarioC ==
    (script.kind = "short" /\ ScriptOver) =>
        /\ pc = "returned"
        /\ result.error = ""
        /\ result.slides =
              IF script.len = 1 /\ script.lap >= BLUR_THRESHOLD THEN 1 ELSE 0

\* ------------------------------------------------------------------------
\* Per-frame effects of the loop
\* ------------------------------------------------------------------------
\* The step reads a frame that is not sampled.
SkippedStep == frame_idx' = frame_idx + 1 /\ frame_idx' % FRAME_SKIP # 0

\* C22: only frames whose 1-based index is a multiple of FRAME_SKIP are
\* evaluated (every frame held as reference or Candidate or written, and
\* every write, is at such an index), and a skipped frame changes nothing
\* but the frame index.
C22_SkippedFramesInvisible ==
    /\ [](/\ reference_slide.idx % FRAME_SKIP = 0
          /\ candidate_frame.idx % FRAME_SKIP = 0
          /\ candidate_frame_color.idx % FRAME_SKIP = 0
          /\ \A k \in Commits : /\ imwrites[k].at % FRAME_SKIP = 0
                                /\ imwrites[k].image.idx % FRAME_SKIP = 0)
    /\ [][SkippedStep => UNCHANGED <<locals, disk, reporter, pc, result>>]_vars

\* A skipped frame has just been read while a cooldown is running.
C22_Witness ==
    /\ pc = "loop"
    /\ frame # None
    /\ frame.idx = frame_idx
    /\ frame.idx % FRAME_SKIP # 0
    /\ cooldown > 0
    /\ cooldown = cooldown_frames

\* The step reads a sharp sampled frame that differs from the reference
\* slide in force.
SharpDifferingStep ==
    /\ SampledStep
    /\ ~is_blurry(cvtColor(frame'))
    /\ diff_run' = diff_run + 1

\* C25: committing slide #1 starts no cooldown: the commit leaves cooldown
\* at 0 with no Candidate, cooldown stays 0 while slide #1 is the only
\* slide, and the very next sampled frame goes through detection (when it
\* is sharp and differs from the reference it is adopted as Candidate, or
\* committed at once).
C25_FirstCommitNoCooldown ==
    /\ [](slide_count = 1 => cooldown = 0)
    /\ [][(slide_count = 0 /\ slide_count' = 1) =>
             /\ cooldown' = 0
             /\ candidate_frame' = None
             /\ stable_count' = 0
             /\ reference_slide' = cvtColor(frame')]_vars
    /\ [][(/\ slide_count = 1
           /\ imwrites[1].at + FRAME_SKIP = frame_idx + 1
           /\ SharpDifferingStep) =>
             (candidate_frame' = cvtColor(frame') \/ slide_count' = 2)]_vars

\* The sampled frame right after slide #1 has been adopted as Candidate.
C25_Witness ==
    /\ pc = "loop"
    /\ slide_count = 1
    /\ Len(imwrites) = 1
    /\ frame_idx = imwrites[1].at + FRAME_SKIP
    /\ candidate_frame # None
    /\ candidate_frame.idx = frame_idx
    /\ cooldown_frames > 0
    /\ cooldown = 0

\* The step of a scripted video reads a sharp sampled frame that shows
\* another image than the reference slide.
ScriptCutStep ==
    /\ SampledStep
    /\ reference_slide # None
    /\ ~is_blurry(cvtColor(frame'))
    /\ Image(script, frame'.idx) # Image(script, reference_slide.idx)

\* Number of sampled frames read since the latest commit.
SampledSinceCommit ==
    (frame_idx - imwrites[Len(imwrites)].at) \div FRAME_SKIP

DetectionCommitStep ==
    Len(imwrites) >= 1 /\ Len(imwrites') = Len(imwrites) + 1

\* The image the step hands to cv2.imwrite.
Written == imwrites'[Len(imwrites')].image

\* What every commit of the detection branch does, whichever frame the
\* Candidate is: it happens on a sharp frame that differs from the
\* reference, writes the colour form of the Candidate, makes the
\* Candidate's grayscale form the reference slide, discards the Candidate
\* and starts the cooldown.
CommitEffect ==
    /\ SharpDifferingStep
    /\ Written = candidate_frame_color'
    /\ Written.form = "bgr"
    /\ reference_slide' = cvtColor(Written)
    /\ candidate_frame' = None
    /\ stable_count' = 0
    /\ slide_count' = slide_count + 1
    /\ cooldown' = cooldown_frames

\* A sharp differing frame goes through detection without a commit exactly
\* while the count stays below min_stable_frames.
NoCommitBelowMinimum ==
    (/\ SharpDifferingStep
     /\ reference_slide # None
     /\ cooldown = 0
     /\ Len(imwrites') = Len(imwrites)) =>
        (candidate_frame' # None /\ stable_count' >= 1
            /\ stable_count' < min_stable_frames)

\* C28 (as stated): a commit by the detection branch happens exactly when
\* stable_count reaches min_stable_frames on a frame that differs from the
\* reference; it writes the colour form of the frame adopted as Candidate,
\* which is not the frame that triggered the commit, sets the reference to
\* the Candidate's grayscale form, discards the Candidate, sets
\* stable_count to 0 and cooldown to cooldown_frames.
C28_CommitWritesEarlierFrame ==
    /\ [][DetectionCommitStep =>
             (CommitEffect /\ Written # frame'
                /\ Written = candidate_frame_color)]_vars
    /\ [][NoCommitBelowMinimum]_vars

\* C28 (amended): as stated, except that the Candidate written is an
\* earlier frame than the triggering one only when min_stable_frames >= 2
\* (then stable_count was min_stable_frames - 1 before the frame); when
\* min_stable_frames <= 1 the triggering frame itself is adopted and
\* written.
C28_CommitWritesCandidate ==
    /\ [][DetectionCommitStep =>
             /\ CommitEffect
             /\ min_stable_frames >= 2 =>
                   /\ candidate_frame # None
                   /\ stable_count = min_stable_frames - 1
                   /\ Written = candidate_frame_color
                   /\ Written.idx < frame'.idx
             /\ min_stable_frames <= 1 => Written = frame']_vars
    /\ [][NoCommitBelowMinimum]_vars

\* Slide #2 has just been committed from a Candidate adopted on an earlier
\* frame than the one that triggered the commit.
C28_Witness ==
    /\ pc = "loop"
    /\ Len(imwrites) = 2
    /\ imwrites[2].at = frame_idx
    /\ imwrites[2].image.idx < frame_idx
    /\ reference_slide = cvtColor(imwrites[2].image)
    /\ candidate_frame = None
    /\ cooldown = cooldown_frames
    /\ cooldown_frames > 0

\* A Candidate exists exactly when stable_count >= 1.
CandidateIffCounting ==
    /\ (candidate_frame # None) <=> (stable_count >= 1)
    /\ candidate_frame = None => stable_count = 0

\* C29 (as stated): at every frame boundary a Candidate exists if and only
\* if stable_count >= 1, and stable_count is never at or above
\* min_stable_frames after a frame has been processed, for every
\* min_stable_frames >= 0.
C29_CountBelowMinimum ==
    Opened =>
        /\ CandidateIffCounting
        /\ frame_idx >= FRAME_SKIP => stable_count < min_stable_frames

\* C29 (amended): at every frame boundary a Candidate exists if and only
\* if stable_count >= 1, and stable_count is below min_stable_frames
\* whenever min_stable_frames >= 1; when min_stable_frames = 0
\* stable_count is 0, which is not below it.
C29_CandidateCount ==
    Opened =>
        /\ CandidateIffCounting
        /\ min_stable_frames >= 1 => stable_count < min_stable_frames
        /\ min_stable_frames = 0 => stable_count = 0

\* A Candidate is one similar frame away from being committed.
C29_Witness ==
    /\ pc = "loop"
    /\ candidate_frame # None
    /\ min_stable_frames >= 2
    /\ stable_count = min_stable_frames - 1
    /\ slide_count >= 2

\* C30: whenever a Candidate exists its grayscale form and its colour form
\* come from the same source frame, and the image written at a commit is
\* the colour form of the frame whose grayscale form becomes the reference
\* slide.
C30_CandidateFormsAgree ==
    /\ [](candidate_frame # None =>
            /\ candidate_frame_color.form = "bgr"
            /\ candidate_frame = cvtColor(candidate_frame_color))
    /\ [][Len(imwrites') = Len(imwrites) + 1 =>
             /\ Written.form = "bgr"
             /\ reference_slide' = cvtColor(Written)]_vars

\* Slide #2 has just been committed from a Candidate that was not the first
\* frame of the run of differing frames: an earlier Candidate was discarded
\* and this one adopted in its place.
C30_Witness ==
    /\ pc = "loop"
    /\ Len(imwrites) = 2
    /\ imwrites[2].at = frame_idx
    /\ min_stable_frames >= 2
    /\ diff_run > min_stable_frames
    /\ imwrites[2].image.idx > frame_idx - FRAME_SKIP * (diff_run - 1)
    /\ reference_slide = cvtColor(imwrites[2].image)

\* C21: when a progress reporter is supplied it is invoked on every sampled
\* frame with percentage frame index / total frame count * 100, with a
\* 'Stabilizing' message exactly for the frames consumed by cooldown and an
\* 'Analyzing' message otherwise, and once more with 100 and a completion
\* message when the run ends.
C21_ReporterEverySampledFrame ==
    /\ [][(progress_callback /\ SampledStep) =>
             /\ progress_calls' = progress_calls + 1
             /\ last_progress'.num = frame_idx' * 100
             /\ last_progress'.den = total_frames
             /\ last_progress'.den # 0
             /\ last_progress'.msg =
                   IF reference_slide # None /\ cooldown > 0
                   THEN "Stabilizing" ELSE "Analyzing"]_vars
    /\ [][(progress_callback /\ pc = "loop" /\ pc' # "loop") =>
             /\ pc' = "returned"
             /\ progress_calls' = progress_calls + 1
             /\ last_progress'.num = 100 * last_progress'.den
             /\ last_progress'.msg = "Done"]_vars

\* ------------------------------------------------------------------------
\* Logged run: the loop with the scores the similarity engine returned for
\* the latest sampled frame kept in scores, as <<structural similarity to
\* the reference, histogram distance to the reference, structural
\* similarity to the Candidate>>.
\* ------------------------------------------------------------------------
ScoreTriples == SsimValues \X HistValues \X SsimValues

LoggedInit ==
    /\ pc = "call"
    /\ script = NoScript
    /\ twin = NoTwin
    /\ scores = NoScores
    /\ LockInit
    /\ AppInit
    /\ ssim_threshold \in ThresholdArgs
    /\ progress_callback \in BOOLEAN
    /\ fps_reported = 0
    /\ fps = 0
    /\ total_frames = 0
    /\ min_stable_frames = 0
    /\ cooldown_frames = 0
    /\ reference_slide = None
    /\ candidate_frame = None
    /\ candidate_frame_color = None
    /\ stable_count = 0
    /\ slide_count = 0
    /\ frame_idx = 0
    /\ cooldown = 0
    /\ frame = None
    /\ dir_exists = FALSE
    /\ files = {}
    /\ imwrites = <<>>
    /\ progress_calls = 0
    /\ last_progress = NoProgress
    /\ result = NoResult
    /\ first_sharp = 0
    /\ diff_run = 0
    /\ run_base = 0

\* The capture opens (lines 167-184).
LoggedOpen ==
    /\ pc = "call"
    /\ \E f \in FpsValues, t \in TotalFramesValues :
          /\ fps_reported' = f
          /\ fps' = EffectiveFps(f)
          /\ total_frames' = t
          /\ min_stable_frames' = MinStableFrames(EffectiveFps(f))
          /\ cooldown_frames' = CooldownFrames(EffectiveFps(f))
    /\ dir_exists' = TRUE
    /\ pc' = "loop"
    /\ UNCHANGED <<other, args, locals, frame_idx, frame, files, imwrites,
                   reporter, result, history>>

\* A frame is read and is not sampled (lines 187-194).
LoggedSkip ==
    /\ pc = "loop"
    /\ frame_idx < MaxLoggedFrames
    /\ (frame_idx + 1) % FRAME_SKIP # 0
    /\ frame_idx' = frame_idx + 1
    /\ \E lap \in LapValues :
          frame' = [idx |-> frame_idx + 1, lap |-> lap, form |-> "bgr"]
    /\ UNCHANGED <<pc, other, args, capture, derived, locals, disk, reporter,
                   result, history>>

\* A frame is read and sampled (lines 187-254); the engine returns the
\* scores t for it.
LoggedSample ==
    /\ pc = "loop"
    /\ frame_idx < MaxLoggedFrames
    /\ (frame_idx + 1) % FRAME_SKIP = 0
    /\ frame_idx' = frame_idx + 1
    /\ \E lap \in LapValues :
          frame' = [idx |-> frame_idx + 1, lap |-> lap, form |-> "bgr"]
    /\ IF ProgressRaises
       THEN pc' = "raised" /\ UNCHANGED <<locals, disk, reporter, scores>>
       ELSE /\ \E t \in ScoreTriples :
                  /\ scores' = t
                  /\ Apply(LoopBody(Locals, frame', t[1], t[2], t[3],
                                    Threshold(ssim_threshold),
                                    min_stable_frames, cooldown_frames), TRUE)
            /\ Report(frame_idx' * 100, total_frames,
                      IF reference_slide # None /\ cooldown > 0
                      THEN "Stabilizing" ELSE "Analyzing",
                      slide_count)
            /\ UNCHANGED pc
    /\ UNCHANGED <<script, twin, locking, app, args, capture, derived,
                   result, history>>

\* cap.read() fails: the run returns (lines 187-189, 256-261).
LoggedEnd ==
    /\ pc = "loop"
    /\ frame' = None
    /\ pc' = "returned"
    /\ Report(100, 1, "Done", slide_count)
    /\ result' = [returned |-> TRUE, error |-> "", slides |-> slide_count,
                  output_dir |-> TRUE]
    /\ UNCHANGED <<other, args, capture, derived, locals, frame_idx, disk, history>>

LoggedNext ==
    \/ LoggedOpen
    \/ LoggedSkip
    \/ LoggedSample
    \/ LoggedEnd

SpecLogged == LoggedInit /\ [][LoggedNext]_vars

\* The step reads a sharp sampled frame that detection finds to differ from
\* the reference slide while a Candidate exists.
CandidateJudgedStep ==
    /\ SampledStep
    /\ reference_slide # None
    /\ cooldown = 0
    /\ candidate_frame # None
    /\ ~is_blurry(cvtColor(frame'))
    /\ detect_scene_change(reference_slide, scores'[1], scores'[2],
                           Threshold(ssim_threshold),
                           HistThresh(Threshold(ssim_threshold)))

\* C27: when a sharp sampled frame differs from the reference and a
\* Candidate exists, stability is judged against the Candidate by
\* structural similarity >= threshold alone (the histogram distance plays no
\* part): if similar, stable_count increases by 1 and the Candidate is
\* kept (and is committed when the count reaches min_stable_frames); if not
\* similar, the Candidate is replaced by the current frame and stable_count
\* becomes 1.
C27_StabilityAgainstCandidate ==
    [][CandidateJudgedStep =>
          IF scores'[3] >= Threshold(ssim_threshold)
          THEN \/ /\ stable_count + 1 < min_stable_frames
                  /\ stable_count' = stable_count + 1
                  /\ candidate_frame' = candidate_frame
                  /\ candidate_frame_color' = candidate_frame_color
                  /\ UNCHANGED imwrites
               \/ /\ stable_count + 1 >= min_stable_frames
                  /\ Len(imwrites') = Len(imwrites) + 1
                  /\ Written = candidate_frame_color
          ELSE /\ candidate_frame' = cvtColor(frame')
               /\ candidate_frame_color' = frame'
               /\ stable_count' = 1
               /\ UNCHANGED imwrites]_vars

\* A frame was judged similar to the Candidate on a structural similarity
\* exactly at the threshold, with a histogram distance to the reference
\* above the histogram threshold.
C27_Witness ==
    /\ pc = "loop"
    /\ candidate_frame # None
    /\ candidate_frame.idx = frame_idx - FRAME_SKIP
    /\ stable_count = 2
    /\ scores[3] = Threshold(ssim_threshold)
    /\ scores[2] > HistThresh(Threshold(ssim_threshold))

\* ------------------------------------------------------------------------
\* Single-instance lock (lines 36-71, 83-89, 900-911): SlideSnap processes
\* starting and exiting on one machine, on the fcntl branch.  A lock file
\* is identified by a number; _lock_path names at most one of them, and a
\* process may still hold open a file the path no longer names.
\* ------------------------------------------------------------------------
\* The variables of extract_slides, and their values while no run is made.
engine == <<pc, args, capture, derived, locals, frame_idx, frame, disk,
            reporter, result, history, script, twin, scores>>

EngineAtRest ==
    /\ pc = "call"
    /\ script = NoScript
    /\ twin = NoTwin
    /\ scores = NoScores
    /\ ssim_threshold = NoArg
    /\ progress_callback = FALSE
    /\ fps_reported = 0
    /\ fps = 0
    /\ total_frames = 0
    /\ min_stable_frames = 0
    /\ cooldown_frames = 0
    /\ reference_slide = None
    /\ candidate_frame = None
    /\ candidate_frame_color = None
    /\ stable_count = 0
    /\ slide_count = 0
    /\ frame_idx = 0
    /\ cooldown = 0
    /\ frame = None
    /\ dir_exists = FALSE
    /\ files = {}
    /\ imwrites = <<>>
    /\ progress_calls = 0
    /\ last_progress = NoProgress
    /\ result = NoResult
    /\ first_sharp = 0
    /\ diff_run = 0
    /\ run_base = 0

ProcsInit == EngineAtRest /\ LockInit /\ AppInit

\* acquire_lock, line 45: _lock_file = open(_lock_path, 'w') opens the file
\* the path names, or creates one when the path names none.
OpenLockFile(p) ==
    /\ proc[p] = "none"
    /\ IF lock_path # 0
       THEN /\ lock_file' = [lock_file EXCEPT ![p] = lock_path]
            /\ UNCHANGED <<lock_path, files_made>>
       ELSE /\ files_made < MaxLockFiles
            /\ files_made' = files_made + 1
            /\ lock_path' = files_made + 1
            /\ lock_file' = [lock_file EXCEPT ![p] = files_made + 1]
    /\ proc' = [proc EXCEPT ![p] = "opened"]
    /\ UNCHANGED <<engine, app, flocks, signal_path>>

\* acquire_lock, lines 49-50: flock(LOCK_EX | LOCK_NB) succeeds on a file
\* nobody has locked; __main__ registers release_lock and runs the
\* application.
LockAcquired(p) ==
    /\ proc[p] = "opened"
    /\ flocks[lock_file[p]] = NoProc
    /\ flocks' = [flocks EXCEPT ![lock_file[p]] = p]
    /\ proc' = [proc EXCEPT ![p] = "running"]
    /\ UNCHANGED <<engine, app, lock_file, lock_path, signal_path, files_made>>

\* acquire_lock, lines 49-52: flock fails on a locked file and
\* acquire_lock returns False.
LockRefused(p) ==
    /\ proc[p] = "opened"
    /\ flocks[lock_file[p]] # NoProc
    /\ proc' = [proc EXCEPT ![p] = "refused"]
    /\ UNCHANGED <<engine, app, lock_file, lock_path, flocks, signal_path, files_made>>

\* __main__, lines 904-905: signal_show_window(); sys.exit(0).  The process
\* ends and its file is closed.
SignalAndExit(p) ==
    /\ proc[p] = "refused"
    /\ signal_path' = TRUE
    /\ proc' = [proc EXCEPT ![p] = "none"]
    /\ lock_file' = [lock_file EXCEPT ![p] = 0]
    /\ UNCHANGED <<engine, app, lock_path, flocks, files_made>>

\* check_show_signal, lines 883-892: the running instance consumes the
\* signal file.
CheckShowSignal(p) ==
    /\ proc[p] = "running"
    /\ signal_path
    /\ signal_path' = FALSE
    /\ UNCHANGED <<engine, app, proc, lock_file, lock_path, flocks, files_made>>

\* _do_quit, lines 878-881: os._exit(0) ends the process without running
\* release_lock; closing the file drops its lock, the file stays.
QuitApp(p) ==
    /\ proc[p] = "running"
    /\ flocks' = [flocks EXCEPT ![lock_file[p]] = NoProc]
    /\ lock_file' = [lock_file EXCEPT ![p] = 0]
    /\ proc' = [proc EXCEPT ![p] = "none"]
    /\ UNCHANGED <<engine, app, lock_path, signal_path, files_made>>

\* release_lock run at interpreter exit, line 62: flock(LOCK_UN).
ReleaseUnlock(p) ==
    /\ proc[p] = "running"
    /\ flocks' = [flocks EXCEPT ![lock_file[p]] = NoProc]
    /\ proc' = [proc EXCEPT ![p] = "unlocked"]
    /\ UNCHANGED <<engine, app, lock_file, lock_path, signal_path, files_made>>

\* release_lock, lines 63-64: _lock_file.close(); os.remove(_lock_path)
\* removes whatever file the path names now.
ReleaseRemove(p) ==
    /\ proc[p] = "unlocked"
    /\ lock_file' = [lock_file EXCEPT ![p] = 0]
    /\ lock_path' = 0
    /\ proc' = [proc EXCEPT ![p] = "removed"]
    /\ UNCHANGED <<engine, app, flocks, signal_path, files_made>>

\* release_lock, lines 68-71: the signal file is removed; the process ends.
ReleaseSignal(p) ==
    /\ proc[p] = "removed"
    /\ signal_path' = FALSE
    /\ proc' = [proc EXCEPT ![p] = "none"]
    /\ UNCHANGED <<engine, app, lock_file, lock_path, flocks, files_made>>

ProcsNext ==
    \E p \in Procs :
        \/ OpenLockFile(p)
        \/ LockAcquired(p)
        \/ LockRefused(p)
        \/ SignalAndExit(p)
        \/ CheckShowSignal(p)
        \/ QuitApp(p)
        \/ ReleaseUnlock(p)
        \/ ReleaseRemove(p)
        \/ ReleaseSignal(p)

SpecProcs == ProcsInit /\ [][ProcsNext]_vars

\* The processes that have acquired the lock and run the application.
Running == {p \in Procs : proc[p] = "running"}

\* C23: under any interleaving of process starts and exits at most one
\* process at a time has acquired the lock and is running the application;
\* every other starter only writes the show signal and exits.
C23_SingleInstance == Cardinality(Running) <= 1

\* ------------------------------------------------------------------------
\* Application window (lines 679-849): the UI thread runs the button
\* commands and the callbacks queued with root.after(0, ...), one at a
\* time; each click on Extract starts a thread that runs run_extraction.
\* ------------------------------------------------------------------------
AppSpecInit == EngineAtRest /\ LockInit /\ AppInit

\* check_ready (lines 745-764): the button is enabled exactly when both
\* paths are set; its text is left alone.
check_ready(v, o, btn) ==
    [btn EXCEPT !.state = IF v # 0 /\ o # 0 THEN "normal" ELSE "disabled"]

\* The button as show_result and show_error leave it (lines 807-812,
\* 838-843).
RestoredButton == [state |-> "normal", text |-> "EXTRACT SLIDES"]

\* select_video (lines 679-698) with a file chosen in the dialog.
select_video ==
    /\ \E f \in VideoFiles :
          /\ video_path' = f
          /\ extract_btn' = check_ready(f, output_path, extract_btn)
    /\ UNCHANGED <<engine, locking, output_path, workers, after_queue>>

\* clear_video (lines 700-712); its button is shown while a video is set.
clear_video ==
    /\ video_path # 0
    /\ video_path' = 0
    /\ extract_btn' = check_ready(0, output_path, extract_btn)
    /\ UNCHANGED <<engine, locking, output_path, workers, after_queue>>

\* select_output (lines 714-729) with a folder chosen in the dialog.
select_output ==
    /\ \E d \in OutputFolders :
          /\ output_path' = d
          /\ extract_btn' = check_ready(video_path, d, extract_btn)
    /\ UNCHANGED <<engine, locking, video_path, workers, after_queue>>

\* clear_output (lines 731-743); its button is shown while a folder is set.
clear_output ==
    /\ output_path # 0
    /\ output_path' = 0
    /\ extract_btn' = check_ready(video_path, 0, extract_btn)
    /\ UNCHANGED <<engine, locking, video_path, workers, after_queue>>

\* start_extraction (lines 771-789), the command of the Extract button: a
\* disabled button does not run its command.
start_extraction ==
    /\ extract_btn.state = "normal"
    /\ \E w \in WorkerIds :
          /\ workers[w].pc = "none"
          /\ workers' = [workers EXCEPT ![w].pc = "started"]
    /\ extract_btn' = [state |-> "disabled", text |-> "EXTRACTING..."]
    /\ UNCHANGED <<engine, locking, video_path, output_path, after_queue>>

\* run_extraction, lines 792-796, outside the try: the names are built
\* from self.video_path and self.output_path; with either of them None
\* os.path raises TypeError and the thread ends.
run_extraction_paths(w) ==
    /\ workers[w].pc = "started"
    /\ workers' = IF video_path = 0 \/ output_path = 0
                  THEN [workers EXCEPT ![w].pc = "died"]
                  ELSE [workers EXCEPT ![w] = [pc |-> "ready",
                                               video |-> video_path,
                                               output |-> output_path]]
    /\ UNCHANGED <<engine, locking, video_path, output_path, extract_btn,
                   after_queue>>

\* run_extraction, lines 798-804: extract_slides is called on
\* self.video_path as it is now; on None the capture either raises or fails
\* to open.
run_extraction_call(w) ==
    /\ workers[w].pc = "ready"
    /\ IF video_path = 0
       THEN /\ workers' = [workers EXCEPT ![w].pc = "finished"]
            /\ \E k \in {"show_result", "show_error"} :
                  after_queue' = Append(after_queue,
                      [kind |-> k, worker |-> w, slides |-> 0])
       ELSE /\ workers' = [workers EXCEPT ![w].pc = "extracting",
                                          ![w].video = video_path]
            /\ UNCHANGED after_queue
    /\ UNCHANGED <<engine, locking, video_path, output_path, extract_btn>>

\* The progress_callback of line 802 queues update_progress.
run_extraction_progress(w) ==
    /\ workers[w].pc = "extracting"
    /\ Len(after_queue) < MaxQueue
    /\ after_queue' = Append(after_queue,
          [kind |-> "update_progress", worker |-> w, slides |-> 0])
    /\ UNCHANGED <<engine, locking, video_path, output_path, extract_btn,
                   workers>>

\* extract_slides returns; show_result is queued (lines 799-834).
run_extraction_return(w) ==
    /\ workers[w].pc = "extracting"
    /\ \E n \in {0, 1} :
          after_queue' = Append(after_queue,
              [kind |-> "show_result", worker |-> w, slides |-> n])
    /\ workers' = [workers EXCEPT ![w].pc = "finished"]
    /\ UNCHANGED <<engine, locking, video_path, output_path, extract_btn>>

\* extract_slides raises; show_error is queued (lines 836-849).
run_extraction_raise(w) ==
    /\ workers[w].pc = "extracting"
    /\ after_queue' = Append(after_queue,
          [kind |-> "show_error", worker |-> w, slides |-> 0])
    /\ workers' = [workers EXCEPT ![w].pc = "finished"]
    /\ UNCHANGED <<engine, locking, video_path, output_path, extract_btn>>

\* The UI thread runs update_progress (lines 766-769).
update_progress ==
    /\ after_queue # <<>>
    /\ Head(after_queue).kind = "update_progress"
    /\ after_queue' = Tail(after_queue)
    /\ UNCHANGED <<engine, locking, video_path, output_path, extract_btn,
                   workers>>

\* The UI thread runs show_result (lines 806-832).
show_result ==
    /\ after_queue # <<>>
    /\ Head(after_queue).kind = "show_result"
    /\ after_queue' = Tail(after_queue)
    /\ extract_btn' = RestoredButton
    /\ workers' = [workers EXCEPT ![Head(after_queue).worker] = NoWorker]
    /\ UNCHANGED <<engine, locking, video_path, output_path>>

\* The UI thread runs show_error (lines 837-847).
show_error ==
    /\ after_queue # <<>>
    /\ Head(after_queue).kind = "show_error"
    /\ after_queue' = Tail(after_queue)
    /\ extract_btn' = RestoredButton
    /\ workers' = [workers EXCEPT ![Head(after_queue).worker] = NoWorker]
    /\ UNCHANGED <<engine, locking, video_path, output_path>>

AppNext ==
    \/ select_video
    \/ clear_video
    \/ select_output
    \/ clear_output
    \/ start_extraction
    \/ \E w \in WorkerIds :
          \/ run_extraction_paths(w)
          \/ run_extraction_call(w)
          \/ run_extraction_progress(w)
          \/ run_extraction_return(w)
          \/ run_extraction_raise(w)
    \/ update_progress
    \/ show_result
    \/ show_error

SpecApp == AppSpecInit /\ [][AppNext]_vars

\* The workers inside run_extraction, and those whose result or error
\* handler has not run yet.
ActiveWorkers ==
    {w \in WorkerIds : workers[w].pc \in {"started", "ready", "extracting"}}

UnhandledWorkers ==
    ActiveWorkers \cup {w \in WorkerIds : workers[w].pc = "finished"}

\* C24: from start_extraction until the run's result or error handler
\* executes on the UI thread the Extract button stays disabled, whatever
\* UI actions interleave, so at most one run_extraction worker is active
\* at a time.
C24_OneExtractionAtATime ==
    /\ UnhandledWorkers # {} => extract_btn.state = "disabled"
    /\ Cardinality(ActiveWorkers) <= 1

\* The application with its scheduling: a started thread keeps running
\* (extract_slides ends, since the video is finite, by returning or by
\* raising), and the UI thread's event loop runs every queued callback.
\* The user's actions are under no obligation.
AppFairness ==
    /\ \A w \in WorkerIds :
          /\ WF_vars(run_extraction_paths(w))
          /\ WF_vars(run_extraction_call(w))
          /\ WF_vars(run_extraction_return(w) \/ run_extraction_raise(w))
    /\ WF_vars(update_progress)
    /\ WF_vars(show_result)
    /\ WF_vars(show_error)

SpecAppFair == AppSpecInit /\ [][AppNext]_vars /\ AppFairness

\* C31: every extraction started by start_extraction eventually finishes in
\* the UI: under every interleaving of the worker thread with UI actions,
\* show_result or show_error is eventually run for it on the UI thread and
\* the Extract button is restored to its enabled 'EXTRACT SLIDES' state.
C31_ExtractionEventuallyFinishes ==
    \A w \in WorkerIds :
        (workers[w].pc = "started") ~>
            (workers[w].pc = "none" /\ extract_btn = RestoredButton)

====
